---- MODULE Spec2Model ----
(***************************************************************************)
(* The event-bid record (class EventBid of bid_app.py) and its projection  *)
(* engine (get_total_fixed_costs, calculate_bed_revenue,                   *)
(* calculate_gate_break_even, generate_final_report), its persistence      *)
(* (to_dict, load_data, apply_site_profile), and main(), which drives      *)
(* them.  Three specifications share the definitions:                      *)
(*   Spec      the form inputs of a session and calls of the engine;       *)
(*   SpecLife  the record under any sequence of its operations;            *)
(*   SpecRun   one run of main() from top to bottom.                       *)
(*                                                                         *)
(* Fields.  The record keeps every field the engine reads.  Of the         *)
(* descriptive fields, which each method only copies, one of each kind     *)
(* is kept: kingdom_event_name (text, persisted), start_date and           *)
(* gate_time (parsed on load), the two steward lists, camping_allowed      *)
(* (a flag of the site profile) and kitchen_size (a choice of the site     *)
(* profile).  The other facility fields are assigned exactly as            *)
(* camping_allowed and kitchen_size are.                                   *)
(*                                                                         *)
(* Amounts.  The record's monetary fields are whole currency units.  The   *)
(* engine multiplies by a bed-sales fraction (bed_sell_pct, here a number  *)
(* of hundredths) and by 0.5 (the Kingdom split), so every amount of a     *)
(* report is kept exactly, as a whole number of 1/Scale currency units.    *)
(***************************************************************************)
EXTENDS Integers, FiniteSets, Sequences, TLC

VARIABLES bid, proj, res, call, log, pc, error, shown

vars == <<bid, proj, res, call, log, pc, error, shown>>

\* ------------------------------------------------------------- bounds

\* Largest monetary amount a form input is given.
MaxAmount == 2
\* Largest amount a cell of the expense ledger is given.
MaxLedger == 1
\* Largest quantity (bunks, feast seats) and largest edited head count.
MaxCount == 1
\* Number of inputs of one session that differ from their initial value.
MaxEdits == 2
\* Number of operations one record goes through in SpecLife.
MaxOps == 2

\* ---------------------------------------------------------- constants

\* bed_sell_pct is a fraction of 1.0: Hundred hundredths are 1.0.
Hundred == 100
\* nms_surcharge as __init__ sets it.
NmsDefault == 10
\* The projection inputs main() starts from.
DefaultWeekend == 100
DefaultDaytrip == 20
DefaultFeast == 50
DefaultBedPct == 50

\* Report amounts are whole numbers of 1/Scale: x * pct/Hundred and x * 0.5
\* are both exact.
Scale == 2 * Hundred

Amounts == 0..MaxAmount
Counts == 0..MaxCount
Modes == {"projected", "actual"}
EventTypes == {"KINGDOM", "LOCAL"}
ExpenseNames == {"Tokens", "Decor"}
\* Positions of the "Projected Bed Sales %" slider, in hundredths.
BedPcts == {0, DefaultBedPct, Hundred}

\* ------------------------------------------------------------- values

\* Python's None.
None == [kind |-> "None"]

\* ------------------------------------------------------------- record

MoneyFields ==
    {"site_flat_fee", "site_variable_cost", "ticket_weekend_member",
     "ticket_daytrip_member", "feast_ticket_price", "food_cost_per_person",
     "beds_top_price", "beds_bot_price"}

CountFields == {"feast_capacity", "beds_top_qty", "beds_bot_qty"}

\* The ledger entries a data-editor row can hold.
ExpenseItems == [projected : 0..MaxLedger, actual : 0..MaxLedger]

\* EventBid.__init__
EventBid ==
    [kingdom_event_name    |-> "N/A",
     start_date            |-> None,
     gate_time             |-> None,
     event_stewards        |-> <<"", "", "", "">>,
     feast_stewards        |-> <<"", "", "">>,
     event_type            |-> "KINGDOM",
     expenses              |-> << >>,
     camping_allowed       |-> FALSE,
     kitchen_size          |-> "None",
     site_flat_fee         |-> 0,
     site_variable_cost    |-> 0,
     ticket_weekend_member |-> 0,
     ticket_daytrip_member |-> 0,
     nms_surcharge         |-> NmsDefault,
     feast_ticket_price    |-> 0,
     food_cost_per_person  |-> 0,
     feast_capacity        |-> 0,
     beds_top_qty          |-> 0,
     beds_top_price        |-> 0,
     beds_bot_qty          |-> 0,
     beds_bot_price        |-> 0]

\* The projection inputs main() holds.
DefaultProj ==
    [attend_weekend |-> DefaultWeekend,
     attend_daytrip |-> DefaultDaytrip,
     feast_count    |-> DefaultFeast,
     bed_sell_pct   |-> DefaultBedPct]

\* No report has been computed since the last input changed.
NoReport == [kind |-> "NoReport"]
NoCall == [kind |-> "NoCall"]

\* ------------------------------------------------------------- engine

\* An int as the value of a field that may also hold None.
Number(n) == [kind |-> "int", n |-> n]
ZeroDivisionError == [kind |-> "ZeroDivisionError"]

\* math.ceil(a / b); a / 0 raises.
Ceil(a, b) ==
    IF b = 0 THEN ZeroDivisionError
    ELSE IF b > 0 THEN Number(-((-a) \div b))
    ELSE Number(-(a \div (-b)))

\* sum(item[mode] for item in items.values())
RECURSIVE SumColumn(_, _)
SumColumn(items, mode) ==
    IF DOMAIN items = {} THEN 0
    ELSE LET k == CHOOSE n \in DOMAIN items : TRUE
         IN items[k][mode]
              + SumColumn([n \in DOMAIN items \ {k} |-> items[n]], mode)

\* A faulty variant: the expense ledger is left out of the fixed costs.
get_total_fixed_costs_site_only(self, mode) == self.site_flat_fee

get_total_fixed_costs(self, mode) ==
    LET total_ops == SumColumn(self.expenses, mode)
    IN self.site_flat_fee + total_ops

\* A faulty variant: the sales fraction is applied to the top bunks only.
calculate_bed_revenue_top_only(self, projected_occupancy_pct) ==
    LET top_rev == (self.beds_top_qty * projected_occupancy_pct)
                     * self.beds_top_price * (Scale \div Hundred)
        bot_rev == self.beds_bot_qty * self.beds_bot_price * Scale
    IN top_rev + bot_rev

\* In 1/Scale units; projected_occupancy_pct in hundredths.
calculate_bed_revenue(self, projected_occupancy_pct) ==
    LET top_rev == (self.beds_top_qty * projected_occupancy_pct)
                     * self.beds_top_price * (Scale \div Hundred)
        bot_rev == (self.beds_bot_qty * projected_occupancy_pct)
                     * self.beds_bot_price * (Scale \div Hundred)
    IN top_rev + bot_rev

\* A faulty variant: only a negative margin is undefined.
calculate_gate_break_even_strict(self) ==
    LET margin == self.ticket_weekend_member - self.site_variable_cost
        fixed_total == get_total_fixed_costs(self, "projected")
    IN IF margin < 0 THEN None ELSE Ceil(fixed_total, margin)

calculate_gate_break_even(self) ==
    LET margin == self.ticket_weekend_member - self.site_variable_cost
        fixed_total == get_total_fixed_costs(self, "projected")
    IN IF margin <= 0 THEN None ELSE Ceil(fixed_total, margin)

\* A faulty variant: the weekend ticket is counted with the surcharge.
total_gate_revenue_with_nms(self, attend_weekend, attend_daytrip) ==
    LET rev_weekend ==
            Scale * ((self.ticket_weekend_member + self.nms_surcharge)
                       * attend_weekend)
        rev_daytrip == Scale * (self.ticket_daytrip_member * attend_daytrip)
    IN rev_weekend + rev_daytrip

\* Gate revenue, in 1/Scale units.
total_gate_revenue(self, attend_weekend, attend_daytrip) ==
    LET rev_weekend == Scale * (self.ticket_weekend_member * attend_weekend)
        rev_daytrip == Scale * (self.ticket_daytrip_member * attend_daytrip)
    IN rev_weekend + rev_daytrip

total_variable(self, attend_weekend, attend_daytrip) ==
    LET total_attendees == attend_weekend + attend_daytrip
    IN Scale * (self.site_variable_cost * total_attendees)

\* A faulty variant: the variable site cost is not taken off the gate.
gate_net_without_variable(self, attend_weekend, attend_daytrip, mode) ==
    LET fixed_costs == Scale * get_total_fixed_costs(self, mode)
    IN total_gate_revenue(self, attend_weekend, attend_daytrip) - fixed_costs

gate_net(self, attend_weekend, attend_daytrip, mode) ==
    LET fixed_costs == Scale * get_total_fixed_costs(self, mode)
    IN total_gate_revenue(self, attend_weekend, attend_daytrip)
         - fixed_costs
         - total_variable(self, attend_weekend, attend_daytrip)

feast_revenue(self, feast_count) ==
    Scale * (self.feast_ticket_price * feast_count)

feast_expenses(self, feast_count) ==
    Scale * (self.food_cost_per_person * feast_count)

\* A faulty variant: the feast count is cut down to the hall's capacity.
feast_net_capped(self, feast_count) ==
    LET seated == IF feast_count > self.feast_capacity
                  THEN self.feast_capacity ELSE feast_count
    IN feast_revenue(self, seated) - feast_expenses(self, seated)

feast_net(self, feast_count) ==
    feast_revenue(self, feast_count) - feast_expenses(self, feast_count)

\* A faulty variant: the bed silo is left out of the total.
total_net_without_beds(gate, feast, bed) == gate + feast

total_net(gate, feast, bed) == gate + feast + bed

\* x * 0.5
Half(x) == x \div 2

\* A faulty variant: a loss is split like a profit.
kingdom_share_splits_losses(self, net) ==
    IF self.event_type = "KINGDOM" THEN Half(net) ELSE 0

kingdom_share(self, net) ==
    IF net > 0
    THEN IF self.event_type = "KINGDOM" THEN Half(net) ELSE 0
    ELSE 0

group_share(self, net) ==
    IF net > 0
    THEN IF self.event_type = "KINGDOM" THEN Half(net) ELSE net
    ELSE 0

generate_final_report(self, attend_weekend, attend_daytrip, feast_count, bed_sell_pct, mode) ==
    LET fixed_costs == Scale * get_total_fixed_costs(self, mode)
        gate == gate_net(self, attend_weekend, attend_daytrip, mode)
        feast == feast_net(self, feast_count)
        bed_revenue == calculate_bed_revenue(self, bed_sell_pct)
        bed == bed_revenue
        net == total_net(gate, feast, bed)
    IN [kind          |-> "report",
        break_even    |-> calculate_gate_break_even(self),
        total_net     |-> net,
        kingdom_share |-> kingdom_share(self, net),
        group_share   |-> group_share(self, net),
        gate_net      |-> gate,
        feast_net     |-> feast,
        bed_net       |-> bed,
        total_revenue |->
            total_gate_revenue(self, attend_weekend, attend_daytrip)
              + feast_revenue(self, feast_count) + bed_revenue,
        total_expense |->
            fixed_costs
              + total_variable(self, attend_weekend, attend_daytrip)
              + feast_expenses(self, feast_count)]

\* The report of the record b for the projection inputs p in mode m.
Report(b, p, m) ==
    generate_final_report(b, p.attend_weekend, p.attend_daytrip,
                          p.feast_count, p.bed_sell_pct, m)

\* -------------------------------------------------------- persistence

\* A datetime.date and a datetime.time.
Date(y, m, d) == [kind |-> "date", y |-> y, m |-> m, d |-> d]
Time(h, mi, sec, us) == [kind |-> "time", h |-> h, mi |-> mi, sec |-> sec, us |-> us]

\* JSON strings: "YYYY-MM-DD", "HH:MM:SS", "HH:MM:SS.ffffff", and any
\* other text.
IsoDate(y, m, d) == [kind |-> "str", fmt |-> "%Y-%m-%d", y |-> y, m |-> m, d |-> d]
IsoTime(h, mi, sec) == [kind |-> "str", fmt |-> "%H:%M:%S", h |-> h, mi |-> mi, sec |-> sec]
IsoTimeMicro(h, mi, sec, us) == [kind |-> "str", fmt |-> "%H:%M:%S.%f", h |-> h, mi |-> mi, sec |-> sec, us |-> us]
Word(w) == [kind |-> "str", fmt |-> "text", w |-> w]

\* str(a_date), str(a_time)
str_date(v) == IsoDate(v.y, v.m, v.d)
str_time(v) == IF v.us = 0 THEN IsoTime(v.h, v.mi, v.sec) ELSE IsoTimeMicro(v.h, v.mi, v.sec, v.us)

DaysIn(y, m) ==
    IF m = 2
    THEN IF (y % 4 = 0 /\ y % 100 # 0) \/ y % 400 = 0 THEN 29 ELSE 28
    ELSE IF m \in {4, 6, 9, 11} THEN 30 ELSE 31

\* datetime.strptime(d_str, "%Y-%m-%d").date() inside try/except: a text
\* that is not a date of the calendar raises, and the handler stores None.
strptime_date(d_str) ==
    IF /\ d_str.fmt = "%Y-%m-%d"
       /\ d_str.m \in 1..12
       /\ d_str.d \in 1..DaysIn(d_str.y, d_str.m)
    THEN Date(d_str.y, d_str.m, d_str.d)
    ELSE None

\* datetime.strptime(t_str, "%H:%M:%S").time() inside try/except.
strptime_time(t_str) ==
    IF /\ t_str.fmt = "%H:%M:%S"
       /\ t_str.h \in 0..23
       /\ t_str.mi \in 0..59
       /\ t_str.sec \in 0..59
    THEN Time(t_str.h, t_str.mi, t_str.sec, 0)
    ELSE None

\* The truth value of an optional text: None and "" are false.
Truthy(v) == v # None /\ v # Word("")

\* dict.get(key, default)
Get(data, key, default) == IF key \in DOMAIN data THEN data[key] ELSE default

to_dict(self) ==
    [kingdom_event_name    |-> self.kingdom_event_name,
     start_date            |->
         IF self.start_date # None THEN str_date(self.start_date) ELSE None,
     gate_time             |->
         IF self.gate_time # None THEN str_time(self.gate_time) ELSE None,
     event_stewards        |-> self.event_stewards,
     feast_stewards        |-> self.feast_stewards,
     site_flat_fee         |-> self.site_flat_fee,
     site_variable_cost    |-> self.site_variable_cost,
     camping_allowed       |-> self.camping_allowed,
     kitchen_size          |-> self.kitchen_size,
     ticket_weekend_member |-> self.ticket_weekend_member,
     ticket_daytrip_member |-> self.ticket_daytrip_member,
     feast_ticket_price    |-> self.feast_ticket_price,
     food_cost_per_person  |-> self.food_cost_per_person,
     feast_capacity        |-> self.feast_capacity,
     beds_top_qty          |-> self.beds_top_qty,
     beds_top_price        |-> self.beds_top_price,
     beds_bot_qty          |-> self.beds_bot_qty,
     beds_bot_price        |-> self.beds_bot_price,
     expenses              |-> self.expenses]

\* A faulty variant: a key the payload lacks leaves the field as it was.
load_data_keeping_missing(self, data) ==
    LET d_str == Get(data, "start_date", None)
        t_str == Get(data, "gate_time", None)
    IN [f \in DOMAIN self |->
          IF f = "start_date"
          THEN IF Truthy(d_str) /\ d_str # Word("None")
               THEN strptime_date(d_str) ELSE self.start_date
          ELSE IF f = "gate_time"
          THEN IF Truthy(t_str) /\ t_str # Word("None")
               THEN strptime_time(t_str) ELSE self.gate_time
          ELSE IF f \in {"event_type", "nms_surcharge"} THEN self[f]
          ELSE Get(data, f, self[f])]

\* The record after self.load_data(data), data a JSON object.
load_data(self, data) ==
    LET d_str == Get(data, "start_date", None)
        t_str == Get(data, "gate_time", None)
    IN [kingdom_event_name    |-> Get(data, "kingdom_event_name", "N/A"),
        start_date            |->
            IF Truthy(d_str) /\ d_str # Word("None")
            THEN strptime_date(d_str) ELSE self.start_date,
        gate_time             |->
            IF Truthy(t_str) /\ t_str # Word("None")
            THEN strptime_time(t_str) ELSE self.gate_time,
        event_stewards        |->
            Get(data, "event_stewards", <<"", "", "", "">>),
        feast_stewards        |-> Get(data, "feast_stewards", <<"", "", "">>),
        event_type            |-> self.event_type,
        site_flat_fee         |-> Get(data, "site_flat_fee", 0),
        site_variable_cost    |-> Get(data, "site_variable_cost", 0),
        camping_allowed       |-> Get(data, "camping_allowed", FALSE),
        kitchen_size          |-> Get(data, "kitchen_size", "None"),
        ticket_weekend_member |-> Get(data, "ticket_weekend_member", 0),
        ticket_daytrip_member |-> Get(data, "ticket_daytrip_member", 0),
        nms_surcharge         |-> self.nms_surcharge,
        feast_ticket_price    |-> Get(data, "feast_ticket_price", 0),
        food_cost_per_person  |-> Get(data, "food_cost_per_person", 0),
        feast_capacity        |-> Get(data, "feast_capacity", 0),
        beds_top_qty          |-> Get(data, "beds_top_qty", 0),
        beds_top_price        |-> Get(data, "beds_top_price", 0),
        beds_bot_qty          |-> Get(data, "beds_bot_qty", 0),
        beds_bot_price        |-> Get(data, "beds_bot_price", 0),
        expenses              |-> Get(data, "expenses", << >>)]

\* A faulty variant: the profile's flat fee is added to the record's.
apply_site_profile_adding_fee(self, profile) ==
    IF profile = None \/ DOMAIN profile = {} THEN self
    ELSE [self EXCEPT
            !.site_flat_fee = @ + Get(profile, "site_flat_fee", 0),
            !.site_variable_cost = Get(profile, "site_variable_cost", 0),
            !.camping_allowed = Get(profile, "camping_allowed", FALSE),
            !.kitchen_size = Get(profile, "kitchen_size", "None"),
            !.beds_bot_qty = Get(profile, "beds_bot_qty", 0),
            !.beds_top_qty = Get(profile, "beds_top_qty", 0)]

\* The record after self.apply_site_profile(profile).
apply_site_profile(self, profile) ==
    IF profile = None \/ DOMAIN profile = {} THEN self
    ELSE [self EXCEPT
            !.site_flat_fee = Get(profile, "site_flat_fee", 0),
            !.site_variable_cost = Get(profile, "site_variable_cost", 0),
            !.camping_allowed = Get(profile, "camping_allowed", FALSE),
            !.kitchen_size = Get(profile, "kitchen_size", "None"),
            !.beds_bot_qty = Get(profile, "beds_bot_qty", 0),
            !.beds_top_qty = Get(profile, "beds_top_qty", 0)]

\* item[mode] raises KeyError for a ledger entry without that column.
KeyError(self, mode) ==
    \E n \in DOMAIN self.expenses : mode \notin DOMAIN self.expenses[n]

\* KNOWN_SITES
KNOWN_SITES ==
    [site \in {"Select a Site...", "Example State Park Group Camp"} |->
        IF site = "Select a Site..." THEN None
        ELSE [site_flat_fee      |-> 1200,
              site_variable_cost |-> 5,
              camping_allowed    |-> TRUE,
              kitchen_size       |-> "Large",
              beds_bot_qty       |-> 40,
              beds_top_qty       |-> 40]]

\* ------------------------------------------------------------ session

\* The inputs that differ from their initial value: record fields,
\* ledger rows and projection inputs.
Edited(b, p) ==
    {f \in DOMAIN EventBid \ {"expenses"} : b[f] # EventBid[f]}
        \cup DOMAIN b.expenses
        \cup {f \in DOMAIN DefaultProj : p[f] # DefaultProj[f]}

WithinSession(b, p) == Cardinality(Edited(b, p)) <= MaxEdits

\* No error is on the page; neither the break-even metric nor the
\* break-even row of the PDF has been drawn.
NoError == [kind |-> "NoError"]
NoMetric == [kind |-> "NoMetric"]
Blank == [metric |-> NoMetric, pdf_row |-> NoMetric]

Init ==
    /\ bid = EventBid
    /\ proj = DefaultProj
    /\ res = NoReport
    /\ call = NoCall
    /\ log = << >>
    /\ pc = "session"
    /\ error = NoError
    /\ shown = Blank

\* st.selectbox("Event Type", ...)
SetEventType ==
    \E t \in EventTypes :
        /\ res = NoReport
        /\ bid' = [bid EXCEPT !.event_type = t]
        /\ WithinSession(bid', proj)
        /\ UNCHANGED <<proj, res, call>>
        /\ UNCHANGED <<log, pc, error, shown>>

\* A number_input of a price or a cost (min_value=0.0).
SetMoney ==
    \E f \in MoneyFields, v \in Amounts :
        /\ res = NoReport
        /\ bid' = [bid EXCEPT ![f] = v]
        /\ WithinSession(bid', proj)
        /\ UNCHANGED <<proj, res, call>>
        /\ UNCHANGED <<log, pc, error, shown>>

\* A number_input of a quantity (min_value=0).
SetCount ==
    \E f \in CountFields, v \in Counts :
        /\ res = NoReport
        /\ bid' = [bid EXCEPT ![f] = v]
        /\ WithinSession(bid', proj)
        /\ UNCHANGED <<proj, res, call>>
        /\ UNCHANGED <<log, pc, error, shown>>

\* The data editor: a row is added or rewritten (the last write wins).
SetExpense ==
    \E n \in ExpenseNames, item \in ExpenseItems :
        /\ res = NoReport
        /\ bid' = [bid EXCEPT !.expenses =
                      [k \in DOMAIN bid.expenses \cup {n} |->
                          IF k = n THEN item ELSE bid.expenses[k]]]
        /\ WithinSession(bid', proj)
        /\ UNCHANGED <<proj, res, call>>
        /\ UNCHANGED <<log, pc, error, shown>>

\* The data editor: a row is deleted.
RemoveExpense ==
    \E n \in DOMAIN bid.expenses :
        /\ res = NoReport
        /\ bid' = [bid EXCEPT !.expenses =
                      [k \in DOMAIN bid.expenses \ {n} |-> bid.expenses[k]]]
        /\ UNCHANGED <<proj, res, call>>
        /\ UNCHANGED <<log, pc, error, shown>>

\* The head-count inputs of the projections.
SetAttendance ==
    \E f \in {"attend_weekend", "attend_daytrip", "feast_count"},
       v \in Counts :
        /\ res = NoReport
        /\ proj' = [proj EXCEPT ![f] = v]
        /\ WithinSession(bid, proj')
        /\ UNCHANGED <<bid, res, call>>
        /\ UNCHANGED <<log, pc, error, shown>>

\* The "Projected Bed Sales %" slider.
SetBedPct ==
    \E v \in BedPcts :
        /\ res = NoReport
        /\ proj' = [proj EXCEPT !.bed_sell_pct = v]
        /\ WithinSession(bid, proj')
        /\ UNCHANGED <<bid, res, call>>
        /\ UNCHANGED <<log, pc, error, shown>>

\* A faulty variant: the call empties the ledger it has summed.
GenerateFinalReport_clearing_ledger ==
    \E mode \in Modes :
        /\ res = NoReport
        /\ res' = Report(bid, proj, mode)
        /\ call' = [kind |-> "call", mode |-> mode]
        /\ bid' = [bid EXCEPT !.expenses = << >>]
        /\ UNCHANGED <<proj, log, pc, error, shown>>

\* A call of generate_final_report on the record as it stands, with the
\* projection inputs the caller holds and either mode.  The validation
\* main() runs before its own call is not part of the method.
GenerateFinalReport ==
    \E mode \in Modes :
        /\ res = NoReport
        /\ res' = Report(bid, proj, mode)
        /\ call' = [kind |-> "call", mode |-> mode]
        /\ UNCHANGED <<bid, proj>>
        /\ UNCHANGED <<log, pc, error, shown>>

\* The script runs again and the previous run's report is gone.
Rerun ==
    /\ res # NoReport
    /\ res' = NoReport
    /\ call' = NoCall
    /\ UNCHANGED <<bid, proj>>
    /\ UNCHANGED <<log, pc, error, shown>>

Next ==
    \/ SetEventType
    \/ SetMoney
    \/ SetCount
    \/ SetExpense
    \/ RemoveExpense
    \/ SetAttendance
    \/ SetBedPct
    \/ GenerateFinalReport
    \/ Rerun

Spec == Init /\ [][Next]_vars

\* ------------------------------------------------- the record's life
\* SpecLife: one EventBid under any sequence of form assignments, ledger
\* edits, load_data and apply_site_profile.  log keeps each operation with
\* its argument and the record it found.

Dates == {Date(2026, 3, 14)}
Times == {Time(9, 0, 0, 0)}

\* The widgets SpecLife assigns from, one of each kind, and the values
\* each can return.
FormValues ==
    [event_type            |-> EventTypes,
     start_date            |-> Dates,
     gate_time             |-> Times,
     site_flat_fee         |-> Amounts,
     ticket_weekend_member |-> Amounts,
     beds_top_qty          |-> Counts,
     kitchen_size          |-> {"None", "Large"}]

\* The rows a data editor's table can hold, and the tables.
EditedRows(n) == {[name |-> n, projected |-> p, actual |-> 0] : p \in {-1, MaxLedger}}
EditedTables ==
    {<< >>}
      \cup {<<r>> : r \in EditedRows("Tokens")}
      \cup {<<r, q>> : r \in EditedRows("Tokens"), q \in EditedRows("Decor")}

\* The loop over edited_df.iterrows(): rows are stored in order and st.stop()
\* ends the run at the first negative amount.
RECURSIVE StoreRows(_, _, _)
StoreRows(rows, i, expenses) ==
    IF i > Len(rows) THEN expenses
    ELSE IF rows[i].projected < 0 \/ rows[i].actual < 0 THEN expenses
    ELSE StoreRows(rows, i + 1,
                   [k \in DOMAIN expenses \cup {rows[i].name} |->
                       IF k = rows[i].name
                       THEN [projected |-> rows[i].projected,
                             actual |-> rows[i].actual]
                       ELSE expenses[k]])

\* The objects of one key, the key and its value taken from values.
OneKey(values) ==
    UNION {{[k \in {key} |-> v] : v \in values[key]} : key \in DOMAIN values}

\* The values a JSON object carries under each key: well-formed ones,
\* malformed ones, a key load_data does not read, a key that is no field.
PayloadValues ==
    [kingdom_event_name    |-> {"Spring Coronation"},
     start_date            |-> {IsoDate(2026, 3, 14), IsoDate(2026, 13, 1),
                                Word("None"), Word("soon")},
     gate_time             |-> {IsoTime(9, 0, 0), Word("noon")},
     site_flat_fee         |-> {-1, MaxAmount},
     ticket_weekend_member |-> {MaxAmount},
     beds_top_qty          |-> {MaxCount},
     kitchen_size          |-> {"Large"},
     expenses              |->
         {[n \in {"Tokens"} |-> [projected |-> MaxLedger, actual |-> 0]],
          [n \in {"Tokens"} |-> [projected |-> -1, actual |-> 0]],
          [n \in {"Tokens"} |-> [actual |-> MaxLedger]]},
     event_type            |-> {"LOCAL"},
     notes                 |-> {"bring chairs"}]

\* The JSON objects offered to load_data on the record b: the empty object,
\* the saved form of b itself, and every object of one key.
Payloads(b) ==
    {<< >>, to_dict(b)}
      \cup OneKey(PayloadValues)

ProfileValues ==
    [site_flat_fee   |-> {-1, MaxAmount},
     camping_allowed |-> {TRUE},
     kitchen_size    |-> {"Large"},
     beds_top_qty    |-> {MaxCount}]

\* The profiles offered to apply_site_profile: the entries of KNOWN_SITES
\* (None among them), the empty profile, and every profile of one key.
Profiles ==
    {KNOWN_SITES[site] : site \in DOMAIN KNOWN_SITES}
      \cup {<< >>}
      \cup OneKey(ProfileValues)

Entry(op, arg) == [op |-> op, arg |-> arg, before |-> bid]

InitLife ==
    /\ bid = EventBid
    /\ proj = DefaultProj
    /\ res = NoReport
    /\ call = NoCall
    /\ log = << >>
    /\ pc = "life"
    /\ error = NoError
    /\ shown = Blank

\* A widget of the form assigns its field.
AssignField ==
    \E f \in DOMAIN FormValues :
        \E v \in FormValues[f] :
            /\ Len(log) < MaxOps
            /\ bid' = [bid EXCEPT ![f] = v]
            /\ log' = Append(log, Entry("form", [field |-> f, value |-> v]))
            /\ UNCHANGED <<proj, res, call, pc, error, shown>>

\* The data editor's table replaces the ledger.
EditLedger ==
    \E rows \in EditedTables :
        /\ Len(log) < MaxOps
        /\ bid' = [bid EXCEPT !.expenses = StoreRows(rows, 1, << >>)]
        /\ log' = Append(log, Entry("ledger", rows))
        /\ UNCHANGED <<proj, res, call, pc, error, shown>>

LoadData ==
    \E data \in Payloads(bid) :
        /\ Len(log) < MaxOps
        /\ bid' = load_data(bid, data)
        /\ log' = Append(log, Entry("load_data", data))
        /\ UNCHANGED <<proj, res, call, pc, error, shown>>

ApplySiteProfile ==
    \E profile \in Profiles :
        /\ Len(log) < MaxOps
        /\ bid' = apply_site_profile(bid, profile)
        /\ log' = Append(log, Entry("apply_site_profile", profile))
        /\ UNCHANGED <<proj, res, call, pc, error, shown>>

NextLife ==
    \/ AssignField
    \/ EditLedger
    \/ LoadData
    \/ ApplySiteProfile

SpecLife == InitLife /\ [][NextLife]_vars

\* The operation the record went through last.
Last == log[Len(log)]
Did(op) == log # << >> /\ Last.op = op

\* ------------------------------------------------------ one run of main
\* SpecRun: main() from "bid = EventBid()" to the save section.  pc is the
\* part of the script the run has reached; what the visitor did (button
\* presses, the uploaded file, typed values) is the input of each step.

\* res['break_even'] if res['break_even'] else "Impossible"
Metric(break_even) ==
    IF break_even # None /\ break_even # Number(0)
    THEN break_even ELSE Word("Impossible")

\* f"{res['break_even']} Attendees"
PdfRow(break_even) ==
    [kind  |-> "str",
     fmt   |-> "{} Attendees",
     count |-> IF break_even = None THEN Word("None") ELSE break_even]

\* The projections create_pdf reports on.
PdfProj ==
    [attend_weekend |-> 100,
     attend_daytrip |-> 20,
     feast_count    |-> 50,
     bed_sell_pct   |-> 50]

kle_options ==
    {"Fighters Collegium/War College", "Meridian Challenge of Arms",
     "Spring Coronation", "Spring Crown/Kingdom A&S",
     "Royal University of Meridies", "Meridian Grand Tournament",
     "Fall Coronation", "Fall Crown List"}

\* The row the data editor shows for an empty ledger.
DefaultLedger ==
    [n \in {"Tournament Token"} |-> [projected |-> 100, actual |-> 0]]

\* The rows of a ledger, as the data editor lists them.
RECURSIVE RowsOf(_)
RowsOf(expenses) ==
    IF DOMAIN expenses = {} THEN << >>
    ELSE LET n == CHOOSE k \in DOMAIN expenses : TRUE
         IN <<[name |-> n, projected |-> expenses[n].projected,
               actual |-> expenses[n].actual]>>
              \o RowsOf([k \in DOMAIN expenses \ {n} |-> expenses[k]])

\* What the visitor typed into the form: a value, or None for a widget left
\* as it was drawn; at most MaxEdits widgets are touched.
Typed(values) == {None} \cup {[kind |-> "typed", value |-> v] : v \in values}
FormInputs ==
    {input \in [ticket_weekend_member : Typed(Amounts),
                site_variable_cost    : Typed(Amounts),
                feast_count           : Typed(Counts),
                ledger                : Typed(EditedTables)] :
        Cardinality({w \in DOMAIN input : input[w] # None}) <= MaxEdits}

\* widget(value=shown): the typed value, or the one it was drawn with.
Widget(typed, drawn) == IF typed = None THEN drawn ELSE typed.value

\* The table the data editor returns.
EditedDf(b, input) ==
    Widget(input.ledger,
           RowsOf(IF DOMAIN b.expenses = {} THEN DefaultLedger ELSE b.expenses))

\* The ledger loop reaches st.stop().
Stops(rows) == \E i \in 1..Len(rows) : rows[i].projected < 0 \/ rows[i].actual < 0

\* The record after the form has assigned its fields.
Form(b, input) ==
    [b EXCEPT
       !.kingdom_event_name =
           IF b.event_type = "KINGDOM"
           THEN IF @ \in kle_options THEN @
                ELSE "Fighters Collegium/War College"
           ELSE IF @ # "N/A" THEN @ ELSE "Local Event",
       !.kitchen_size = "None",
       !.ticket_weekend_member = Widget(input.ticket_weekend_member, @),
       !.site_variable_cost = Widget(input.site_variable_cost, @),
       !.expenses = StoreRows(EditedDf(b, input), 1, << >>)]

\* A widget cannot be drawn: a number_input is given a value below its
\* min_value, or a ledger entry lacks a column the data editor lists.
FormRaisesOn(b) ==
    \/ \E f \in MoneyFields \cup CountFields : b[f] < 0
    \/ \E mode \in Modes : KeyError(b, mode)

InitRun ==
    /\ bid = EventBid
    /\ proj = DefaultProj
    /\ res = NoReport
    /\ call = NoCall
    /\ log = << >>
    /\ pc = "sidebar"
    /\ error = NoError
    /\ shown = Blank

\* "Load Site Data" is pressed for a site of the selectbox.
LoadSiteData ==
    \E site \in DOMAIN KNOWN_SITES \ {"Select a Site..."} :
        /\ pc = "sidebar"
        /\ bid' = apply_site_profile(bid, KNOWN_SITES[site])
        /\ log' = Append(log, Entry("apply_site_profile", KNOWN_SITES[site]))
        /\ pc' = "upload"
        /\ UNCHANGED <<proj, res, call, error, shown>>

\* The button is not pressed in this run.
NoSiteData ==
    /\ pc = "sidebar"
    /\ pc' = "upload"
    /\ UNCHANGED <<bid, proj, res, call, log, error, shown>>

\* An uploaded file holds a JSON object.
UploadLoads ==
    \E data \in Payloads(bid) :
        /\ pc = "upload"
        /\ bid' = load_data(bid, data)
        /\ log' = Append(log, Entry("load_data", data))
        /\ pc' = "form"
        /\ UNCHANGED <<proj, res, call, error, shown>>

\* An uploaded file is no JSON, or JSON that is no object: json.load or
\* the first data.get raises, and the handler reports it.
UploadRaises ==
    \E content \in {"not JSON", "a JSON array"} :
        /\ pc = "upload"
        /\ error' = [kind |-> "error", text |-> "Error loading file"]
        /\ pc' = "form"
        /\ UNCHANGED <<bid, proj, res, call, log, shown>>

NoUpload ==
    /\ pc = "upload"
    /\ pc' = "form"
    /\ UNCHANGED <<bid, proj, res, call, log, error, shown>>

\* The form cannot be drawn for the record as loaded, and the run ends.
FormRaises ==
    /\ pc = "form"
    /\ FormRaisesOn(bid)
    /\ error' = [kind |-> "exception", text |-> "form"]
    /\ pc' = "raised"
    /\ UNCHANGED <<bid, proj, res, call, log, shown>>

\* The form is drawn and assigns the record's fields.
FillForm ==
    \E input \in FormInputs :
        /\ pc = "form"
        /\ ~FormRaisesOn(bid)
        /\ ~Stops(EditedDf(bid, input))
        /\ bid' = Form(bid, input)
        /\ proj' = [DefaultProj EXCEPT
                      !.feast_count = Widget(input.feast_count, @)]
        /\ pc' = "calculate"
        /\ UNCHANGED <<res, call, log, error, shown>>

\* The ledger loop meets a negative amount: st.error and st.stop().
FormStops ==
    \E input \in FormInputs :
        /\ pc = "form"
        /\ ~FormRaisesOn(bid)
        /\ Stops(EditedDf(bid, input))
        /\ bid' = Form(bid, input)
        /\ error' = [kind |-> "error", text |-> "Costs cannot be negative."]
        /\ pc' = "stopped"
        /\ UNCHANGED <<proj, res, call, log, shown>>

\* The validation block of "Calculate Results".
Errors(b, p) ==
    \/ p.feast_count > b.feast_capacity
    \/ (b.ticket_weekend_member <= b.site_variable_cost
          /\ b.ticket_weekend_member > 0)

\* "Calculate Results" is pressed and the inputs pass the validation.
CalculateResults ==
    \E mode \in Modes :
        /\ pc = "calculate"
        /\ ~Errors(bid, proj)
        /\ res' = Report(bid, proj, mode)
        /\ call' = [kind |-> "call", mode |-> mode]
        /\ shown' = [shown EXCEPT !.metric = Metric(res'.break_even)]
        /\ pc' = "save"
        /\ UNCHANGED <<bid, proj, log, error>>

\* "Calculate Results" is pressed and the validation reports errors.
CalculateRejected ==
    /\ pc = "calculate"
    /\ Errors(bid, proj)
    /\ error' = [kind |-> "error", text |-> "validation"]
    /\ pc' = "save"
    /\ UNCHANGED <<bid, proj, res, call, log, shown>>

NoCalculate ==
    /\ pc = "calculate"
    /\ pc' = "save"
    /\ UNCHANGED <<bid, proj, res, call, log, error, shown>>

\* The save section: create_pdf(bid) draws the budget summary.
CreatePdf ==
    /\ pc = "save"
    /\ shown' = [shown EXCEPT
                   !.pdf_row = PdfRow(Report(bid, PdfProj, "projected").break_even)]
    /\ pc' = "done"
    /\ UNCHANGED <<bid, proj, res, call, log, error>>

NextRun ==
    \/ LoadSiteData
    \/ NoSiteData
    \/ UploadLoads
    \/ UploadRaises
    \/ NoUpload
    \/ FormRaises
    \/ FillForm
    \/ FormStops
    \/ CalculateResults
    \/ CalculateRejected
    \/ NoCalculate
    \/ CreatePdf

SpecRun == InitRun /\ [][NextRun]_vars

\* ------------------------------------------------------------- claims

HasReport == res.kind = "report"

\* The ledger column m summed name by name.
RECURSIVE LedgerSum(_, _, _)
LedgerSum(items, names, m) ==
    IF names = {} THEN 0
    ELSE LET n == CHOOSE x \in names : TRUE
         IN (IF n \in DOMAIN items THEN items[n][m] ELSE 0)
              + LedgerSum(items, names \ {n}, m)

\* Site flat fee plus the ledger column m.
FixedCostsOf(b, m) ==
    b.site_flat_fee + LedgerSum(b.expenses, ExpenseNames, m)

\* n is the ceiling of a / d, for d > 0.
IsCeil(n, a, d) == n * d >= a /\ (n - 1) * d < a

\* C1: the total net of every report is exactly the sum of its three
\* silo nets, gate + feast + bed.
C1_TotalNetIsSumOfSilos ==
    HasReport => res.total_net = res.gate_net + res.feast_net + res.bed_net

C1_Witness ==
    /\ HasReport
    /\ res.gate_net # 0
    /\ res.feast_net # 0
    /\ res.total_net # res.gate_net

\* C2: gate net is gate revenue minus the fixed costs of the report's mode
\* (site flat fee plus that ledger column) minus the variable site cost,
\* and the fixed costs reach neither the feast net nor the bed net.
C2_GateNetCarriesFixedCosts ==
    HasReport =>
        /\ res.gate_net =
              Scale * ((bid.ticket_weekend_member * proj.attend_weekend
                          + bid.ticket_daytrip_member * proj.attend_daytrip)
                       - FixedCostsOf(bid, call.mode)
                       - bid.site_variable_cost
                           * (proj.attend_weekend + proj.attend_daytrip))
        /\ \A fee \in Amounts, items \in {<< >>, bid.expenses} :
              LET other == Report([bid EXCEPT !.site_flat_fee = fee,
                                              !.expenses = items],
                                  proj, call.mode)
              IN /\ other.feast_net = res.feast_net
                 /\ other.bed_net = res.bed_net

C2_Witness ==
    /\ HasReport
    /\ LedgerSum(bid.expenses, ExpenseNames, call.mode) > 0
    /\ bid.site_flat_fee > 0
    /\ call.mode = "actual"

\* C3, as claimed: with a positive margin the break-even of a report is
\* the ceiling of that report's fixed costs (the column of its mode) over
\* the margin.
C3_BreakEvenIsCeilOfReportFixedCosts ==
    (HasReport /\ bid.ticket_weekend_member > bid.site_variable_cost) =>
        /\ res.break_even.kind = "int"
        /\ IsCeil(res.break_even.n, FixedCostsOf(bid, call.mode),
                  bid.ticket_weekend_member - bid.site_variable_cost)

\* C4: with a margin of zero or less the break-even is None: not a
\* number, and not a division error, whatever the fixed costs and mode.
C4_NoMarginNoBreakEven ==
    (HasReport /\ bid.ticket_weekend_member <= bid.site_variable_cost) =>
        res.break_even = None

C4_Witness ==
    /\ HasReport
    /\ bid.ticket_weekend_member = bid.site_variable_cost
    /\ bid.ticket_weekend_member > 0
    /\ FixedCostsOf(bid, "projected") = 0
    /\ FixedCostsOf(bid, "actual") = 0

\* C5, as claimed: a numeric break-even n is the least attendance that
\* covers the gate costs of its report: n weekend attendees and no
\* daytrippers leave gate_net >= 0 in the report's mode, and n - 1 leave
\* gate_net < 0.
C5_BreakEvenIsLeastCoveringAttendance ==
    (HasReport /\ res.break_even.kind = "int") =>
        LET n == res.break_even.n
            at(k) == Report(bid, [proj EXCEPT !.attend_weekend = k,
                                              !.attend_daytrip = 0],
                            call.mode)
        IN /\ at(n).gate_net >= 0
           /\ n >= 1 => at(n - 1).gate_net < 0

\* The ledgers that agree with items on column m and have any amounts in
\* the other column.
SameColumn(items, m) ==
    {alt \in [DOMAIN items -> ExpenseItems] :
        \A n \in DOMAIN items : alt[n][m] = items[n][m]}

\* C6, as claimed: a report reads the ledger column of its mode only:
\* records that differ in the other column alone get the same report.
C6_ReportReadsModeColumnOnly ==
    HasReport =>
        \A alt \in SameColumn(bid.expenses, call.mode) :
            Report([bid EXCEPT !.expenses = alt], proj, call.mode) = res

\* C7: no share of a total net of zero or less; a Kingdom event splits a
\* positive total net into two equal halves; a Local event gives it all
\* to the group and nothing to the kingdom.
C7_RevenueShareSplit ==
    HasReport =>
        /\ res.total_net <= 0 =>
              res.kingdom_share = 0 /\ res.group_share = 0
        /\ (res.total_net > 0 /\ bid.event_type = "KINGDOM") =>
              /\ res.kingdom_share = res.group_share
              /\ 2 * res.kingdom_share = res.total_net
        /\ (res.total_net > 0 /\ bid.event_type = "LOCAL") =>
              res.kingdom_share = 0 /\ res.group_share = res.total_net
        /\ res.total_net > 0 =>
              res.kingdom_share + res.group_share = res.total_net
        /\ bid.event_type = "LOCAL" => res.kingdom_share = 0

C7_Witness ==
    /\ HasReport
    /\ res.total_net > 0
    /\ bid.event_type = "LOCAL"
    /\ res.group_share = res.total_net

\* The values a feast input is varied over.
FeastEnds == {0, MaxAmount}

\* C8: feast net is (ticket price - food cost) x feast count, whatever
\* the hall's capacity, and gate net, bed net and break-even are the same
\* for every feast price, food cost, capacity and feast count.
C8_FeastIsSiloed ==
    HasReport =>
        /\ res.feast_net =
              Scale * (bid.feast_ticket_price * proj.feast_count
                         - bid.food_cost_per_person * proj.feast_count)
        /\ \A price \in FeastEnds, cost \in FeastEnds,
              cap \in {0, MaxCount}, n \in {0, MaxCount, DefaultFeast} :
              LET other ==
                      Report([bid EXCEPT !.feast_ticket_price = price,
                                         !.food_cost_per_person = cost,
                                         !.feast_capacity = cap],
                             [proj EXCEPT !.feast_count = n], call.mode)
              IN /\ other.gate_net = res.gate_net
                 /\ other.bed_net = res.bed_net
                 /\ other.break_even = res.break_even

C8_Witness ==
    /\ HasReport
    /\ proj.feast_count > bid.feast_capacity
    /\ bid.feast_capacity > 0
    /\ res.feast_net # 0

Surcharges == {0, NmsDefault, NmsDefault + MaxAmount}

\* C10: the non-member surcharge is in no figure: records that differ in
\* nms_surcharge alone get the same report and the same break-even.
C10_SurchargeExcluded ==
    HasReport =>
        \A nms \in Surcharges :
            LET other == [bid EXCEPT !.nms_surcharge = nms]
            IN /\ Report(other, proj, call.mode) = res
               /\ calculate_gate_break_even(other)
                    = calculate_gate_break_even(bid)

C10_Witness ==
    /\ HasReport
    /\ bid.nms_surcharge > 0
    /\ bid.ticket_weekend_member > 0
    /\ proj.attend_weekend > 0
    /\ res.break_even.kind = "int"
    /\ res.total_revenue > 0

\* A profile that apply_site_profile does not return from at once.
NonEmpty(profile) == profile # None /\ DOMAIN profile # {}

\* C11: apply_site_profile merges: after a non-empty profile is applied,
\* every field whose key the profile has holds the profile's value and
\* every field whose key the profile lacks holds the value it held before.
C11_ProfileIsMerged ==
    (Did("apply_site_profile") /\ NonEmpty(Last.arg)) =>
        \A f \in DOMAIN bid :
            bid[f] = IF f \in DOMAIN Last.arg
                     THEN Last.arg[f] ELSE Last.before[f]

\* C12: apply_site_profile is idempotent: applying the profile just applied
\* (None and the empty profile among them) once more leaves the record as
\* the first application left it.
C12_ApplyTwiceIsApplyOnce ==
    Did("apply_site_profile") => apply_site_profile(bid, Last.arg) = bid

\* A non-empty profile has been applied and has changed the record.
C12_Witness ==
    /\ Did("apply_site_profile")
    /\ NonEmpty(Last.arg)
    /\ bid # Last.before
    /\ Last.before # EventBid

\* C13: round trip: the saved form of the record, loaded into a newly
\* created EventBid, gives a record equal to it in every field, event_type
\* and nms_surcharge included.
C13_SaveThenLoadIsIdentity == load_data(EventBid, to_dict(bid)) = bid

\* C14: after load_data on a record in any state, a key that is no field
\* has added nothing to the record, and every field whose key the payload
\* lacks holds the value __init__ gives it, start_date and gate_time
\* included.
C14_MissingKeysEndAtDefaults ==
    Did("load_data") =>
        /\ DOMAIN bid = DOMAIN EventBid
        /\ \A f \in DOMAIN bid \ DOMAIN Last.arg : bid[f] = EventBid[f]

\* C15: after load_data of any JSON object the record holds nothing
\* malformed: start_date is None or a date, gate_time is None or a time,
\* and every ledger entry has both columns, so that no later read of the
\* ledger raises.
C15_LoadStoresNothingMalformed ==
    Did("load_data") =>
        /\ bid.start_date.kind \in {"None", "date"}
        /\ bid.gate_time.kind \in {"None", "time"}
        /\ \A mode \in Modes : ~KeyError(bid, mode)

\* C17: in every state the record reaches, every monetary field and every
\* amount of the ledger is non-negative.
C17_AmountsNonNegative ==
    /\ \A f \in MoneyFields : bid[f] >= 0
    /\ \A n \in DOMAIN bid.expenses :
           \A column \in DOMAIN bid.expenses[n] : bid.expenses[n][column] >= 0

\* C16: the engine is a pure function of the record and its inputs: a
\* call that returns a report leaves every field of the record, the ledger
\* included, as it was, and the same call on the record as the call left
\* it returns an equal report.
C16_EngineLeavesRecordAlone ==
    [][(res.kind # "report" /\ res'.kind = "report") =>
          /\ bid' = bid
          /\ Report(bid', proj', call'.mode) = res']_vars

C16_Witness ==
    /\ HasReport
    /\ DOMAIN bid.expenses # {}
    /\ LedgerSum(bid.expenses, ExpenseNames, call.mode) > 0
    /\ res.total_expense > 0

C19_ImpossibleIffNoBreakEven ==
    /\ (HasReport /\ shown.metric # NoMetric) =>
          /\ (shown.metric = Word("Impossible")) <=> (res.break_even = None)
          /\ res.break_even # None => shown.metric = res.break_even
    /\ shown.pdf_row # NoMetric => shown.pdf_row.count # Word("None")

\* The fields load_data assigns whatever the payload holds.
AssignedByLoad ==
    DOMAIN EventBid \ {"event_type", "nms_surcharge", "start_date", "gate_time"}

\* C20: when a run reaches the form, the record was created with the
\* defaults, then a profile was applied if the button was pressed, then
\* the uploaded file was loaded, in that order; after a load every field
\* load_data assigns holds the file's value, or the default when the file
\* lacks the key, whatever the profile had set; and after an upload that
\* raised, an error is on the page and the record is the one the sidebar
\* left.
C20_UploadOverwritesProfile ==
    pc = "form" =>
        /\ Len(log) <= 2
        /\ \A i \in 1..Len(log) :
              /\ log[i].op \in {"apply_site_profile", "load_data"}
              /\ log[i].op = "apply_site_profile" =>
                    i = 1 /\ log[i].before = EventBid
              /\ log[i].op = "load_data" => i = Len(log)
        /\ Did("load_data") =>
              /\ error = NoError
              /\ \A f \in AssignedByLoad :
                    bid[f] = Get(Last.arg, f, EventBid[f])
        /\ error # NoError =>
              /\ ~Did("load_data")
              /\ bid = IF log = << >> THEN EventBid
                       ELSE apply_site_profile(EventBid, log[1].arg)

\* A profile was applied and a file loaded over it: the file's bunk count
\* has replaced the profile's, and the flat fee the file lacks is back at
\* its default.
C20_Witness ==
    /\ pc = "form"
    /\ Len(log) = 2
    /\ log[1].op = "apply_site_profile"
    /\ Last.op = "load_data"
    /\ "beds_top_qty" \in DOMAIN Last.arg
    /\ bid.beds_top_qty # Last.before.beds_top_qty
    /\ "site_flat_fee" \notin DOMAIN Last.arg
    /\ Last.before.site_flat_fee > 0
    /\ bid.site_flat_fee = 0

====
